---- MODULE Spec2Model ----
(***************************************************************************)
(* Model of the retrieval-augmented context engine of Smart API DocGen:    *)
(* app/rag_utils.py (ingest, load, retrieve on the Chroma collection kept  *)
(* under CHROMA_PATH) and of the /generate-docs handler of app/main.py     *)
(* that drives it together with app/gemini_service.py.                     *)
(*                                                                         *)
(* Three specifications share the state:                                   *)
(*   SpecRag   a client of rag_utils calling create_rag_vectorstore,       *)
(*             load_rag_vectorstore and retrieve_rag_context directly,     *)
(*             with process crashes in between;                            *)
(*   Spec      concurrent /generate-docs requests on one event loop;       *)
(*   SpecSplit the text splitter of create_rag_vectorstore applied to a    *)
(*             list of documents.                                          *)
(*                                                                         *)
(* The vector backend (Chroma, the sentence-transformers embedder) is not  *)
(* part of the repository.  It is modelled by what the calls in            *)
(* rag_utils.py rely on: from_documents appends one entry per chunk to the *)
(* collection at persist_directory, similarity_search returns the nearest  *)
(* min(k, n) entries by distance.  What the backend leaves open (the order *)
(* of entries at equal distance, the outcome for k <= 0) is a choice.      *)
(***************************************************************************)
EXTENDS Integers, Sequences, FiniteSets, TLC

(* ------------------------------ bounds --------------------------------- *)
\* most documents in one create_rag_vectorstore call of SpecRag
MaxDocs == 2
\* most entries the collection holds in SpecRag
MaxIndex == 3
\* largest k tried in SpecRag
MaxK == 3
\* number of /generate-docs requests in Spec
NumReqs == 2
\* most documents in one split_documents call of SpecSplit
MaxSplitDocs == 2

(* ------------------------- program constants --------------------------- *)
\* retrieve_rag_context(vectordb, query, k: int = 5); every caller passes k=5
DefaultK == 5
\* RecursiveCharacterTextSplitter(chunk_size=1200, ...)
ChunkSize == 1200
\* RecursiveCharacterTextSplitter(..., chunk_overlap=200)
ChunkOverlap == 200
\* for attempt in range(3)
MaxAttempts == 3

Min(a, b) == IF a < b THEN a ELSE b
Abs(a) == IF a < 0 THEN 0 - a ELSE a
IsPrefix(s, t) == Len(s) <= Len(t) /\ SubSeq(t, 1, Len(s)) = s
Range(s) == {s[i] : i \in 1..Len(s)}
\* number of entries of index idx whose text is t
Copies(idx, t) == Cardinality({i \in 1..Len(idx) : idx[i].doc = t})

(* ------------------------------- data ---------------------------------- *)
\* file contents; " " stands for a whitespace-only document
DocTexts == {"a", "b", " "}
\* the four queries gemini_service.py issues
QEndpoints == "API routes and controllers"
QLanguage == "project architecture"
QSummary == "Project overview"
QPom == "pom.xml dependencies"
Queries == {QSummary, QLanguage}
Ks == (0 - 1)..MaxK

\* HuggingFaceEmbeddings(all-MiniLM-L6-v2): a deterministic map from text to
\* a vector, here one coordinate.  "a" and "b" are equally far from
\* "Project overview"; "b" is nearer to the other three queries.
Embed(t) ==
    CASE t = "a" -> 0
      [] t = "b" -> 2
      [] t = QSummary -> 1
      [] t = QLanguage -> 4
      [] t = QEndpoints -> 3
      [] t = QPom -> 5
      [] OTHER -> 9

VARIABLES
    disk,       \* the collection persisted under CHROMA_PATH: Seq of entries
    mem,        \* the collection as the running process holds it
    open,       \* whether the process has a Chroma client on CHROMA_PATH
    tieOrder,   \* how the backend orders entries at equal distance
    vectordb,   \* SpecRag: the handle the client holds: none, created, loaded
    last,       \* SpecRag: the last call and what it returned
    acked,      \* SpecRag history: entries of the ingest calls that returned
    returned,   \* SpecRag history: the Index Store the last ingest returned
    prevIndex,  \* SpecRag history: the collection before the last ingest
    restarted,  \* SpecRag history: the process crashed since the last ingest
    memo,       \* SpecRag history: the first "Project overview" retrieval
                \* since the last ingest
    pc,         \* Spec: where each request is in generate_docs
    running,    \* Spec: the request the event loop is executing, 0 if none
    repo,       \* Spec: the repository each request cloned
    repo_path,  \* Spec: state of each request's clone directory
    pending,    \* Spec: chunks from_documents has still to write
    written,    \* Spec: chunks from_documents has written so far
    attempt,    \* Spec: attempts of the language-summary loop
    section,    \* Spec: the documentation sections of each response
    resp,       \* Spec: how each request ended
    obs,        \* Spec: what each request's last retrieval observed
    fault,      \* Spec: the core steps (ingest, retrievals) that failed
    api_key,    \* Spec: whether GOOGLE_API_KEY is set in the environment
    explanations, \* Spec: per request, the list generate_ai_endpoint_explanations returned
    split_in,   \* SpecSplit: the documents handed to the text splitter
    split_out,  \* SpecSplit: the chunks split_documents returned
    split_done  \* SpecSplit: whether split_documents has run

ragVars == <<vectordb, last, acked, returned, prevIndex, restarted, memo>>
reqVars == <<pc, running, repo, repo_path, pending, written, attempt, section,
             resp, obs, fault, api_key, explanations>>
splitVars == <<split_in, split_out, split_done>>
vars == <<disk, mem, open, tieOrder, ragVars, reqVars, splitVars>>

(* --------------------------- rag_utils.py ------------------------------ *)
\* A whitespace-only document: the splitter strips it to nothing.
IsBlank(t) == t \in {"", " "}

\* text_splitter.split_documents(docs): every document here is shorter than
\* chunk_size, so it yields one chunk, its text; a blank one yields none.
split_documents(code_texts) ==
    SelectSeq(code_texts, LAMBDA t : ~IsBlank(t) /\ Len(t) <= ChunkSize)

\* One Index Entry per chunk: the chunk text and its embedding vector.
Entries(chunks) == [i \in 1..Len(chunks) |-> [doc |-> chunks[i], emb |-> Embed(chunks[i])]]

\* The client's view of the collection at CHROMA_PATH: what the process
\* already holds, or what it reads from disk when it opens the client.
OpenView == IF open THEN mem ELSE disk

\* Chroma.from_documents(split_docs, embeddings, ...): the collection gets one
\* new entry (fresh id) per chunk, after the entries it already holds.
AddToCollection_Dedup(idx, chunks) ==
    idx \o Entries(SelectSeq(chunks, LAMBDA t : Copies(idx, t) = 0))

AddToCollection_Recreate(idx, chunks) == Entries(chunks)

AddToCollection(idx, chunks) == idx \o Entries(chunks)

\* persist_directory=CHROMA_PATH: the entries are written to the store on
\* disk by the same call (the explicit vectordb.persist() is commented out;
\* the backend persists on write).
PersistedAfter_NoDirectory(d, chunks) == d

PersistedAfter(d, chunks) == AddToCollection(d, chunks)

\* create_rag_vectorstore(code_texts): the Index Store it returns, as the
\* collection the handle reads.
create_rag_vectorstore(view, code_texts) ==
    AddToCollection(view, split_documents(code_texts))

\* load_rag_vectorstore(): a handle on the collection stored at CHROMA_PATH.
load_rag_vectorstore_OtherPath(view) == << >>

load_rag_vectorstore(view) == view

\* Distance of an entry's stored vector from the query's vector.
Distance(query, e) == Abs(Embed(query) - e.emb)

\* Entries at equal distance: the backend's order, fixed for a run.
TieBefore(i, j) == IF tieOrder = "insertion" THEN i < j ELSE i > j

Before(idx, query, i, j) ==
    \/ Distance(query, idx[i]) < Distance(query, idx[j])
    \/ Distance(query, idx[i]) = Distance(query, idx[j]) /\ TieBefore(i, j)

\* The positions of idx, nearest first.
Ranked(idx, query) ==
    [p \in 1..Len(idx) |->
        CHOOSE i \in 1..Len(idx) :
            Cardinality({j \in 1..Len(idx) : Before(idx, query, j, i)}) = p - 1]

\* vectordb.similarity_search(query, k=k) for k > 0: the positions of the
\* min(k, n) nearest entries, nearest first.
similarity_search_NotEnough(idx, query, k) ==
    IF k > Len(idx) THEN << >> ELSE SubSeq(Ranked(idx, query), 1, k)

similarity_search(idx, query, k) ==
    SubSeq(Ranked(idx, query), 1, Min(k, Len(idx)))

\* [r.page_content for r in results]
page_contents(idx, ids) == [p \in 1..Len(ids) |-> idx[ids[p]].doc]

\* "\n\n".join(texts)
RECURSIVE join_SingleNewline(_)
join_SingleNewline(texts) ==
    IF texts = << >> THEN ""
    ELSE IF Len(texts) = 1 THEN texts[1]
    ELSE texts[1] \o "\n" \o join_SingleNewline(Tail(texts))

RECURSIVE join(_)
join(texts) ==
    IF texts = << >> THEN ""
    ELSE IF Len(texts) = 1 THEN texts[1]
    ELSE texts[1] \o "\n\n" \o join(Tail(texts))

\* retrieve_rag_context(vectordb, query, k) for k > 0
retrieve_rag_context(idx, query, k) ==
    join(page_contents(idx, similarity_search(idx, query, k)))

\* What similarity_search may do when handed k <= 0: retrieve_rag_context
\* passes k on unchecked, so the outcome is the backend's.
NonPositiveKOutcomes == {"BackendError", "none"}

(* ------------------------------ SpecRag -------------------------------- *)
NoCall == [op |-> "none", query |-> "", k |-> 0, searched |-> FALSE,
           ids |-> << >>, context |-> "", error |-> "none"]

DocLists == UNION {[1..n -> DocTexts] : n \in 1..MaxDocs}

Reqs == 1..NumReqs

\* the sections of the response that the generators of gemini_service.py fill
Sections == {"endpoint_explanations", "language_summary",
             "ai_project_summary", "pom_explanation"}

NoRepo == [src |-> << >>, other |-> FALSE, pom |-> FALSE]
NoSections == [s \in Sections |-> "unset"]
NoObs == [query |-> "", seen |-> 0, partial |-> FALSE, context |-> ""]

IdleReqs ==
    /\ pc = [r \in Reqs |-> "idle"]
    /\ running = 0
    /\ repo = [r \in Reqs |-> NoRepo]
    /\ repo_path = [r \in Reqs |-> "none"]
    /\ pending = [r \in Reqs |-> << >>]
    /\ written = [r \in Reqs |-> 0]
    /\ attempt = [r \in Reqs |-> 0]
    /\ section = [r \in Reqs |-> NoSections]
    /\ resp = [r \in Reqs |-> "none"]
    /\ obs = [r \in Reqs |-> NoObs]
    /\ fault = [r \in Reqs |-> {}]
    /\ explanations = [r \in Reqs |-> << >>]

InitStore ==
    /\ disk = << >>
    /\ mem = << >>
    /\ open = FALSE
    /\ tieOrder \in {"insertion", "backend"}
    /\ vectordb = "none"
    /\ last = NoCall
    /\ acked = << >>
    /\ returned = << >>
    /\ prevIndex = << >>
    /\ restarted = FALSE
    /\ memo = NoCall

\* the text splitter has not been called
IdleSplit ==
    /\ split_in = << >>
    /\ split_out = << >>
    /\ split_done = FALSE

InitRag == InitStore /\ IdleReqs /\ IdleSplit /\ api_key = TRUE

\* vectordb = create_rag_vectorstore(code_texts).  The callers hand it at
\* least one non-blank text (generate_docs returns early otherwise).
Ingest(code_texts) ==
    LET chunks == split_documents(code_texts)
        view == create_rag_vectorstore(OpenView, code_texts) IN
    /\ chunks # << >>
    /\ Len(disk) + Len(chunks) <= MaxIndex
    /\ mem' = view
    /\ open' = TRUE
    /\ disk' = PersistedAfter(disk, chunks)
    /\ vectordb' = "created"
    /\ acked' = acked \o Entries(chunks)
    /\ returned' = view
    /\ prevIndex' = OpenView
    /\ restarted' = FALSE
    /\ memo' = NoCall
    /\ last' = [NoCall EXCEPT !.op = "ingest"]
    /\ UNCHANGED <<tieOrder, splitVars, reqVars>>

\* vectordb = load_rag_vectorstore()
Load ==
    /\ mem' = load_rag_vectorstore(OpenView)
    /\ open' = TRUE
    /\ vectordb' = "loaded"
    /\ last' = [NoCall EXCEPT !.op = "load"]
    /\ UNCHANGED <<disk, tieOrder, splitVars, acked, returned, prevIndex, restarted, memo,
                   reqVars>>

\* retrieve_rag_context(vectordb, query, k)
Retrieve(query, k) ==
    /\ vectordb # "none"
    /\ IF k > 0
       THEN last' = [op |-> "retrieve", query |-> query, k |-> k,
                     searched |-> TRUE,
                     ids |-> similarity_search(mem, query, k),
                     context |-> retrieve_rag_context(mem, query, k),
                     error |-> "none"]
       ELSE \E out \in NonPositiveKOutcomes :
                last' = [op |-> "retrieve", query |-> query, k |-> k,
                         searched |-> TRUE, ids |-> << >>, context |-> "",
                         error |-> out]
    /\ memo' = IF memo.op = "none" /\ k > 0 /\ query = QSummary
               THEN last' ELSE memo
    /\ UNCHANGED <<disk, mem, open, tieOrder, splitVars, vectordb, acked, returned,
                   prevIndex, restarted, reqVars>>

\* The process dies: what it held in memory and its handles are gone.
Crash ==
    /\ open
    /\ mem' = << >>
    /\ open' = FALSE
    /\ vectordb' = "none"
    /\ restarted' = TRUE
    /\ last' = [NoCall EXCEPT !.op = "crash"]
    /\ UNCHANGED <<disk, tieOrder, splitVars, acked, returned, prevIndex, memo, reqVars>>

NextRag ==
    \/ \E code_texts \in DocLists : Ingest(code_texts)
    \/ Load
    \/ \E query \in Queries, k \in Ks : Retrieve(query, k)
    \/ Crash

SpecRag == InitRag /\ [][NextRag]_vars

(* ------------------------- Spec: /generate-docs ------------------------ *)
\* The repositories a request may clone: src are the contents of the files
\* with an allowed source extension, other says whether further text files
\* exist, pom whether one of them is a pom.xml.  Contents are stripped and
\* non-empty (extract_code_files keeps no empty file).
Repos ==
    { [src |-> << >>, other |-> FALSE, pom |-> FALSE],
      [src |-> << >>, other |-> TRUE, pom |-> FALSE],
      [src |-> <<"a", "b">>, other |-> TRUE, pom |-> FALSE],
      [src |-> <<"b">>, other |-> FALSE, pom |-> TRUE],
      [src |-> <<"a">>, other |-> FALSE, pom |-> TRUE] }

\* extract_code_files(repo_path): is the list of text files non-empty
code_files_found(rp) == rp.src # << >> \/ rp.other \/ rp.pom

\* [f for f in code_files if f["path"].endswith(allowed_exts)], contents
filtered_files(rp) == rp.src

\* extract_endpoints_from_code: "a" declares two routes, "b" none; the
\* result is deduplicated and sorted.
extract_endpoints_from_code(code_texts) ==
    IF "a" \in Range(code_texts) THEN <<"GET /a", "POST /a">> ELSE << >>

\* generate_docs is a coroutine that never awaits: once the event loop has
\* started a request it runs it to its return before it starts another.
Scheduled_ThreadPool(r) == TRUE

Scheduled(r) == running \in {0, r}

\* Another request's create_rag_vectorstore has written part of its chunks.
PartialIngest(r) ==
    \E r2 \in Reqs \ {r} :
        pc[r2] = "ingesting" /\ written[r2] > 0 /\ pending[r2] # << >>

\* What a retrieve_rag_context(vectordb, query, k=5) of request r sees.
Observation(r, query) ==
    [query |-> query, seen |-> Len(mem), partial |-> PartialIngest(r),
     context |-> retrieve_rag_context(mem, query, DefaultK)]

\* How a generator of gemini_service.py can end: get_gemini_client raises
\* when the key is missing; otherwise the retrieval or the model call may
\* raise, or the call succeeds.
GenOutcomes ==
    IF api_key THEN {"ok", "retrieval_error", "model_error"}
    ELSE {"client_error"}

\* The value a generator returns: its text, or (every exception is caught)
\* a warning.
SectionValue(out) ==
    CASE out = "ok" -> "text"
      [] out = "bad_json" -> "raw_text"
      [] OTHER -> "warning"

\* try: client; rag_context = retrieve_rag_context(...); model call
\* except Exception as e: return warning
Generate(r, name, query, out) ==
    /\ section' = [section EXCEPT ![r][name] = SectionValue(out)]
    /\ obs' = IF out \in {"ok", "model_error", "bad_json"}
              THEN [obs EXCEPT ![r] = Observation(r, query)] ELSE obs
    /\ fault' = IF out = "retrieval_error"
                THEN [fault EXCEPT ![r] = @ \cup {name}] ELSE fault

Init == InitStore /\ IdleReqs /\ IdleSplit /\ api_key \in BOOLEAN

\* repo_path = clone_github_repo(git_url)
Start(r, rp) ==
    /\ pc[r] = "idle"
    /\ Scheduled(r)
    /\ running' = r
    /\ repo' = [repo EXCEPT ![r] = rp]
    /\ repo_path' = [repo_path EXCEPT ![r] = "cloned"]
    /\ pc' = [pc EXCEPT ![r] = "extract"]
    /\ UNCHANGED <<disk, mem, open, tieOrder, splitVars, ragVars, pending, written,
                   attempt, section, resp, obs, fault, api_key,
                   explanations>>

\* git.Repo.clone_from raises: the exception leaves generate_docs, the
\* directory mkdtemp made stays.
CloneRaises(r) ==
    /\ pc[r] = "idle"
    /\ Scheduled(r)
    /\ repo_path' = [repo_path EXCEPT ![r] = "tempdir"]
    /\ resp' = [resp EXCEPT ![r] = "raised_clone"]
    /\ pc' = [pc EXCEPT ![r] = "done"]
    /\ UNCHANGED <<disk, mem, open, tieOrder, splitVars, ragVars, running, repo, pending,
                   written, attempt, section, obs, fault, api_key,
                   explanations>>

\* code_files = extract_code_files(repo_path); if not code_files: ...
Extract(r) ==
    /\ pc[r] = "extract"
    /\ Scheduled(r)
    /\ IF code_files_found(repo[r])
       THEN /\ pc' = [pc EXCEPT ![r] = "filter"]
            /\ UNCHANGED <<repo_path, resp, running, repo>>
       ELSE /\ repo_path' = [repo_path EXCEPT ![r] = "removed"]
            /\ resp' = [resp EXCEPT ![r] = "no_code_files"]
            /\ pc' = [pc EXCEPT ![r] = "done"]
            /\ repo' = [repo EXCEPT ![r] = NoRepo]
            /\ running' = 0
    /\ UNCHANGED <<disk, mem, open, tieOrder, splitVars, ragVars, pending, written,
                   attempt, section, obs, fault, api_key,
                   explanations>>

\* filtered_files = [...]; if not filtered_files: ...
Filter(r) ==
    /\ pc[r] = "filter"
    /\ Scheduled(r)
    /\ IF filtered_files(repo[r]) # << >>
       THEN /\ pc' = [pc EXCEPT ![r] = "ingest"]
            /\ UNCHANGED <<repo_path, resp, running, repo>>
       ELSE /\ repo_path' = [repo_path EXCEPT ![r] = "removed"]
            /\ resp' = [resp EXCEPT ![r] = "no_source_files"]
            /\ pc' = [pc EXCEPT ![r] = "done"]
            /\ repo' = [repo EXCEPT ![r] = NoRepo]
            /\ running' = 0
    /\ UNCHANGED <<disk, mem, open, tieOrder, splitVars, ragVars, pending, written,
                   attempt, section, obs, fault, api_key,
                   explanations>>

\* the pipeline going on to the generators with the chunks split but not
\* yet written to the collection
IngestBegin_Deferred(r) ==
    /\ pc[r] = "ingest"
    /\ Scheduled(r)
    /\ pending' = [pending EXCEPT ![r] = split_documents(filtered_files(repo[r]))]
    /\ written' = [written EXCEPT ![r] = 0]
    /\ pc' = [pc EXCEPT ![r] = "endpoints"]
    /\ UNCHANGED <<disk, mem, open, tieOrder, splitVars, ragVars, running, repo, repo_path,
                   attempt, section, resp, obs, fault, api_key,
                   explanations>>

\* vectordb = create_rag_vectorstore([f["content"] for f in filtered_files]):
\* the texts are split and the embedder is built.
IngestBegin(r) ==
    /\ pc[r] = "ingest"
    /\ Scheduled(r)
    /\ pending' = [pending EXCEPT ![r] = split_documents(filtered_files(repo[r]))]
    /\ written' = [written EXCEPT ![r] = 0]
    /\ pc' = [pc EXCEPT ![r] = "ingesting"]
    /\ UNCHANGED <<disk, mem, open, tieOrder, splitVars, ragVars, running, repo, repo_path,
                   attempt, section, resp, obs, fault, api_key,
                   explanations>>

\* create_rag_vectorstore raises (the embedding model cannot be loaded):
\* the call is not inside a try, so the exception leaves generate_docs; no
\* section is produced and the clone is not removed.
IngestRaises(r) ==
    /\ pc[r] = "ingest"
    /\ Scheduled(r)
    /\ fault' = [fault EXCEPT ![r] = @ \cup {"create_rag_vectorstore"}]
    /\ resp' = [resp EXCEPT ![r] = "raised_ingest"]
    /\ pc' = [pc EXCEPT ![r] = "done"]
    /\ repo' = [repo EXCEPT ![r] = NoRepo]
    /\ running' = 0
    /\ UNCHANGED <<disk, mem, open, tieOrder, splitVars, ragVars, repo_path, pending,
                   written, attempt, section, obs, api_key,
                   explanations>>

\* Chroma.from_documents writes the chunks' entries, one after the other;
\* with the last one written create_rag_vectorstore returns.
IngestWrite(r) ==
    /\ pc[r] = "ingesting"
    /\ Scheduled(r)
    /\ pending[r] # << >>
    /\ mem' = AddToCollection(OpenView, <<Head(pending[r])>>)
    /\ disk' = PersistedAfter(disk, <<Head(pending[r])>>)
    /\ open' = TRUE
    /\ pending' = [pending EXCEPT ![r] = Tail(@)]
    /\ written' = [written EXCEPT ![r] = @ + 1]
    /\ pc' = [pc EXCEPT ![r] = IF Len(pending[r]) = 1 THEN "endpoints" ELSE @]
    /\ UNCHANGED <<tieOrder, splitVars, ragVars, running, repo, repo_path, attempt,
                   section, resp, obs, fault, api_key,
                   explanations>>

\* the earlier generate_ai_endpoint_explanations: on a failure one error
\* entry for the whole list
generate_ai_endpoint_explanations_SingleError(endpoints, out) ==
    IF endpoints = << >> THEN <<[note |-> "no_endpoints"]>>
    ELSE CASE out = "ok" -> <<[json |-> "model_output"]>>
           [] OTHER -> <<[error |-> "warning"]>>

\* generate_ai_endpoint_explanations(endpoints, vectordb), by how its body
\* ends: no endpoints -> one note entry; the model's text parses -> what
\* json.loads gives (left open, one token); the text does not parse -> one
\* entry per endpoint with the raw text; client, retrieval or model call
\* raises -> one entry per endpoint with the warning text.
generate_ai_endpoint_explanations(endpoints, out) ==
    IF endpoints = << >> THEN <<[note |-> "no_endpoints"]>>
    ELSE CASE out = "ok" -> <<[json |-> "model_output"]>>
           [] out = "bad_json" ->
                [i \in 1..Len(endpoints) |->
                    [endpoint |-> endpoints[i],
                     endpoint_explanation_text |-> "raw_text"]]
           [] OTHER ->
                [i \in 1..Len(endpoints) |->
                    [endpoint |-> endpoints[i],
                     endpoint_explanation_text |-> "warning"]]

\* endpoints = extract_endpoints_from_code(...)
\* endpoint_explanations = generate_ai_endpoint_explanations(endpoints, vectordb)
EndpointExplanations(r) ==
    /\ pc[r] = "endpoints"
    /\ Scheduled(r)
    /\ LET endpoints == extract_endpoints_from_code(filtered_files(repo[r]))
       IN  \E out \in GenOutcomes \cup (IF api_key THEN {"bad_json"} ELSE {}) :
               /\ explanations' = [explanations EXCEPT ![r] =
                      generate_ai_endpoint_explanations(endpoints, out)]
               /\ IF endpoints = << >>
                  THEN /\ section' = [section EXCEPT
                              ![r]["endpoint_explanations"] = "note"]
                       /\ UNCHANGED <<obs, fault>>
                  ELSE Generate(r, "endpoint_explanations", QEndpoints, out)
    /\ pc' = [pc EXCEPT ![r] = "language"]
    /\ UNCHANGED <<disk, mem, open, tieOrder, splitVars, ragVars, running, repo, repo_path,
                   pending, written, attempt, resp, api_key>>

\* What a call of a generator can raise to its caller.
RaiseKinds == {"none", "RESOURCE_EXHAUSTED", "other"}

\* generate_ai_language_summary without its except clause: a failing model
\* call raises the rate-limit error, a failing client or retrieval another
language_summary_raised_Uncaught(out) ==
    CASE out = "model_error" -> "RESOURCE_EXHAUSTED"
      [] out \in {"client_error", "retrieval_error"} -> "other"
      [] OTHER -> "none"

\* generate_ai_language_summary: except Exception as e: return warning;
\* nothing is raised, whatever the outcome
language_summary_raised(out) == "none"

\* for attempt in range(3): try: call; break
\*     except Exception as e:
\*         if "RESOURCE_EXHAUSTED" in str(e): time.sleep(30) else: raise
\* else: rate-limit warning
\* raised[i] is what the i-th call raises; the result is the number of calls
\* made and how the loop is left.
RECURSIVE retry_loop(_, _)
retry_loop(raised, i) ==
    IF raised[i] = "none" THEN [attempts |-> i, end |-> "break"]
    ELSE IF raised[i] = "RESOURCE_EXHAUSTED"
         THEN IF i < MaxAttempts THEN retry_loop(raised, i + 1)
              ELSE [attempts |-> i, end |-> "exhausted"]
         ELSE [attempts |-> i, end |-> "raise"]

\* language_summary = None; the retry loop around
\* generate_ai_language_summary(language, purpose, endpoints, vectordb).
\* time.sleep blocks the event loop, so the loop runs without interleaving.
LanguageSummary(r) ==
    /\ pc[r] = "language"
    /\ Scheduled(r)
    /\ \E outs \in [1..MaxAttempts -> GenOutcomes] :
           LET raised == [i \in 1..MaxAttempts |->
                             language_summary_raised(outs[i])]
               loop   == retry_loop(raised, 1)
           IN  /\ attempt' = [attempt EXCEPT ![r] = loop.attempts]
               /\ CASE loop.end = "break" ->
                         /\ Generate(r, "language_summary", QLanguage,
                                     outs[loop.attempts])
                         /\ pc' = [pc EXCEPT ![r] = "summary"]
                         /\ UNCHANGED <<resp, running, repo>>
                    [] loop.end = "exhausted" ->
                         /\ section' = [section EXCEPT
                                ![r]["language_summary"] = "rate_limit_warning"]
                         /\ obs' = [obs EXCEPT
                                       ![r] = Observation(r, QLanguage)]
                         /\ pc' = [pc EXCEPT ![r] = "summary"]
                         /\ UNCHANGED <<fault, resp, running, repo>>
                    [] loop.end = "raise" ->
                         /\ resp' = [resp EXCEPT ![r] = "raised_language"]
                         /\ pc' = [pc EXCEPT ![r] = "done"]
                         /\ repo' = [repo EXCEPT ![r] = NoRepo]
                         /\ running' = 0
                         /\ UNCHANGED <<section, obs, fault>>
    /\ UNCHANGED <<disk, mem, open, tieOrder, splitVars, ragVars, repo_path,
                   pending, written, api_key,
                   explanations>>

\* ai_summary = generate_ai_project_summary(endpoints, vectordb)
ProjectSummary(r) ==
    /\ pc[r] = "summary"
    /\ Scheduled(r)
    /\ \E out \in GenOutcomes : Generate(r, "ai_project_summary", QSummary, out)
    /\ pc' = [pc EXCEPT ![r] = "pom"]
    /\ UNCHANGED <<disk, mem, open, tieOrder, splitVars, ragVars, running, repo, repo_path,
                   pending, written, attempt, resp, api_key,
                   explanations>>

\* pom_explanation = None; if pom_path: try: read it,
\* generate_ai_pom_explanation(pom_content, vectordb) except: warning
PomExplanation(r) ==
    /\ pc[r] = "pom"
    /\ Scheduled(r)
    /\ IF repo[r].pom
       THEN \E out \in GenOutcomes \cup {"read_error"} :
                Generate(r, "pom_explanation", QPom, out)
       ELSE /\ section' = [section EXCEPT ![r]["pom_explanation"] = "none"]
            /\ UNCHANGED <<obs, fault>>
    /\ pc' = [pc EXCEPT ![r] = "cleanup"]
    /\ UNCHANGED <<disk, mem, open, tieOrder, splitVars, ragVars, running, repo, repo_path,
                   pending, written, attempt, resp, api_key,
                   explanations>>

\* shutil.rmtree(repo_path)
Cleanup(r) ==
    /\ pc[r] = "cleanup"
    /\ Scheduled(r)
    /\ repo_path' = [repo_path EXCEPT ![r] = "removed"]
    /\ pc' = [pc EXCEPT ![r] = "respond"]
    /\ UNCHANGED <<disk, mem, open, tieOrder, splitVars, ragVars, running, repo, pending,
                   written, attempt, section, resp, obs, fault, api_key,
                   explanations>>

\* return {"status": "success", ...}: the response leaves the server and
\* the request's locals are dropped.
Return(r) ==
    /\ pc[r] = "respond"
    /\ Scheduled(r)
    /\ resp' = [resp EXCEPT ![r] = "success"]
    /\ pc' = [pc EXCEPT ![r] = "done"]
    /\ repo' = [repo EXCEPT ![r] = NoRepo]
    /\ section' = [section EXCEPT ![r] = NoSections]
    /\ obs' = [obs EXCEPT ![r] = NoObs]
    /\ fault' = [fault EXCEPT ![r] = {}]
    /\ attempt' = [attempt EXCEPT ![r] = 0]
    /\ written' = [written EXCEPT ![r] = 0]
    /\ explanations' = [explanations EXCEPT ![r] = << >>]
    /\ running' = 0
    /\ UNCHANGED <<disk, mem, open, tieOrder, splitVars, ragVars, repo_path, pending,
                   api_key>>

Next ==
    \E r \in Reqs :
        \/ \E rp \in Repos : Start(r, rp)
        \/ CloneRaises(r)
        \/ Extract(r)
        \/ Filter(r)
        \/ IngestBegin(r)
        \/ IngestRaises(r)
        \/ IngestWrite(r)
        \/ EndpointExplanations(r)
        \/ LanguageSummary(r)
        \/ ProjectSummary(r)
        \/ PomExplanation(r)
        \/ Cleanup(r)
        \/ Return(r)

Spec == Init /\ [][Next]_vars

(* --------------------- SpecSplit: the text splitter -------------------- *)
(* RecursiveCharacterTextSplitter(chunk_size=1200, chunk_overlap=200) with *)
(* the library defaults: separators "\n\n", "\n", " ", "", the separator   *)
(* kept at the start of the piece that follows it, chunks stripped of      *)
(* leading and trailing whitespace, empty chunks dropped.  A text is a     *)
(* sequence of tokens: a word (n characters, none of them whitespace), one *)
(* space or one newline.  Pieces and chunks are ranges of token positions  *)
(* of their document.                                                      *)

Word(s, n) == [s |-> s, n |-> n, ws |-> FALSE]
SP == [s |-> " ", n |-> 1, ws |-> TRUE]
NL == [s |-> "\n", n |-> 1, ws |-> TRUE]

Separators == <<"\n\n", "\n", " ", "">>

Piece(a, b) == [from |-> a, to |-> b]

SetMin(S) == CHOOSE x \in S : \A y \in S : x <= y
SetMax(S) == CHOOSE x \in S : \A y \in S : y <= x

\* len() of the characters at positions a..b
RECURSIVE TextLen(_, _, _)
TextLen(doc, a, b) ==
    IF a > b THEN 0 ELSE doc[a].n + TextLen(doc, a + 1, b)

PieceLen(doc, p) == TextLen(doc, p.from, p.to)

\* str.strip() of a piece; the empty piece when it is all whitespace
strip(doc, p) ==
    LET solid == {i \in p.from..p.to : ~doc[i].ws}
    IN  IF solid = {} THEN Piece(p.from, p.from - 1)
        ELSE Piece(SetMin(solid), SetMax(solid))

\* strip_whitespace=False: the joined pieces as they are
join_docs_NoStrip(doc, current_doc) ==
    IF current_doc = << >> THEN << >>
    ELSE <<Piece(current_doc[1].from, current_doc[Len(current_doc)].to)>>

\* _join_docs: the pieces joined and stripped, None (no chunk) when empty
join_docs(doc, current_doc) ==
    IF current_doc = << >> THEN << >>
    ELSE LET text == strip(doc, Piece(current_doc[1].from,
                                      current_doc[Len(current_doc)].to))
         IN  IF text.from > text.to THEN << >> ELSE <<text>>

\* where "\n\n" matches in a..b, left to right without overlap
RECURSIVE BlankLineStarts(_, _, _)
BlankLineStarts(doc, a, b) ==
    IF a >= b THEN {}
    ELSE IF doc[a] = NL /\ doc[a + 1] = NL
         THEN {a} \cup BlankLineStarts(doc, a + 2, b)
         ELSE BlankLineStarts(doc, a + 1, b)

\* where the separator matches in the piece
SepStarts(doc, p, sep) ==
    CASE sep = "\n\n" -> BlankLineStarts(doc, p.from, p.to)
      [] sep = "\n"   -> {i \in p.from..p.to : doc[i] = NL}
      [] sep = " "    -> {i \in p.from..p.to : doc[i] = SP}
      [] OTHER        -> {}

RECURSIVE Ascending(_)
Ascending(S) ==
    IF S = {} THEN << >>
    ELSE <<SetMin(S)>> \o Ascending(S \ {SetMin(S)})

\* _split_text_with_regex with keep_separator: each separator opens the
\* piece that follows it; empty pieces are dropped
split_text_with_regex(doc, p, sep) ==
    IF p.from > p.to THEN << >>
    ELSE LET starts == {p.from} \cup SepStarts(doc, p, sep)
             begin  == Ascending(starts)
             end(k) == IF k = Len(begin) THEN p.to ELSE begin[k + 1] - 1
         IN  [k \in 1..Len(begin) |-> Piece(begin[k], end(k))]

\* the while loop of _merge_splits: drop pieces from the front until the
\* rest fits in the overlap and leaves room for the next piece
RECURSIVE DropFront(_, _, _, _)
DropFront(doc, current_doc, total, len) ==
    IF total > ChunkOverlap \/ (total + len > ChunkSize /\ total > 0)
    THEN DropFront(doc, Tail(current_doc),
                   total - PieceLen(doc, Head(current_doc)), len)
    ELSE [current_doc |-> current_doc, total |-> total]

RECURSIVE MergeFrom(_, _, _, _, _, _)
MergeFrom(doc, splits, i, current_doc, total, docs) ==
    IF i > Len(splits) THEN docs \o join_docs(doc, current_doc)
    ELSE LET len  == PieceLen(doc, splits[i])
             full == total + len > ChunkSize /\ current_doc # << >>
             kept == IF full THEN DropFront(doc, current_doc, total, len)
                     ELSE [current_doc |-> current_doc, total |-> total]
         IN  MergeFrom(doc, splits, i + 1,
                       Append(kept.current_doc, splits[i]),
                       kept.total + len,
                       IF full THEN docs \o join_docs(doc, current_doc)
                       ELSE docs)

\* _merge_splits with the empty join separator of keep_separator=True
merge_splits(doc, splits) == MergeFrom(doc, splits, 1, << >>, 0, << >>)

\* index in Separators of the first separator found in the piece, the last
\* one ("") when none is
FirstSeparator(doc, p, level) ==
    LET found == {j \in level..(Len(Separators) - 1) :
                     SepStarts(doc, p, Separators[j]) # {}}
    IN  IF found = {} THEN Len(Separators) ELSE SetMin(found)

\* _split_text: pieces shorter than chunk_size are merged, a longer piece
\* is split again with the separators that remain.  With the separator ""
\* the pieces are single characters, which merge back into the whole piece
\* as long as it has at most chunk_size characters (every word of
\* SplitTexts is that short).
RECURSIVE split_text(_, _, _)
RECURSIVE SplitFrom(_, _, _, _, _, _)
SplitFrom(doc, splits, i, good_splits, final_chunks, level) ==
    IF i > Len(splits)
    THEN final_chunks \o merge_splits(doc, good_splits)
    ELSE IF PieceLen(doc, splits[i]) < ChunkSize
         THEN SplitFrom(doc, splits, i + 1, Append(good_splits, splits[i]),
                        final_chunks, level)
         ELSE SplitFrom(doc, splits, i + 1, << >>,
                        final_chunks \o merge_splits(doc, good_splits)
                                     \o split_text(doc, splits[i], level),
                        level)

split_text(doc, p, level) ==
    LET j == FirstSeparator(doc, p, level)
    IN  IF j = Len(Separators) THEN join_docs(doc, <<p>>)
        ELSE SplitFrom(doc, split_text_with_regex(doc, p, Separators[j]),
                       1, << >>, << >>, j + 1)

\* split_documents: the chunks of each document, document after document;
\* src is the position of the chunk's document in the input
RECURSIVE SplitDocsFrom(_, _)
SplitDocsFrom(docs, d) ==
    IF d > Len(docs) THEN << >>
    ELSE LET chunks == split_text(docs[d], Piece(1, Len(docs[d])), 1)
         IN  [c \in 1..Len(chunks) |->
                 [src |-> d, from |-> chunks[c].from, to |-> chunks[c].to]]
             \o SplitDocsFrom(docs, d + 1)

text_splitter_split_documents(docs) == SplitDocsFrom(docs, 1)

\* page_content of a chunk
chunk_text(docs, c) == SubSeq(docs[c.src], c.from, c.to)

\* the documents tried: empty, blank, short with and without whitespace at
\* the ends, and longer than chunk_size in several ways
SplitTexts ==
    { << >>,
      <<SP, NL>>,
      <<Word("a", 1)>>,
      <<SP, Word("a", 1), NL>>,
      <<Word("a", 1), NL, NL, Word("b", 1)>>,
      <<Word("p", 700), NL, NL, Word("q", 700), NL, NL, Word("r", 300)>>,
      <<Word("p", 1000), NL, NL, Word("o", 150), NL, NL, Word("q", 900)>>,
      <<Word("p", 700), SP, Word("q", 700), NL, NL, Word("r", 1)>>,
      <<SP, Word("w", 1199)>> }

SplitInputs ==
    UNION {[1..n -> SplitTexts] : n \in 0..MaxSplitDocs}

InitSplit ==
    /\ InitStore /\ IdleReqs /\ api_key = TRUE
    /\ split_in \in SplitInputs
    /\ split_out = << >>
    /\ split_done = FALSE

\* docs = [Document(page_content=t) for t in code_texts];
\* split_docs = text_splitter.split_documents(docs)
SplitDocuments ==
    /\ ~split_done
    /\ split_out' = text_splitter_split_documents(split_in)
    /\ split_done' = TRUE
    /\ UNCHANGED <<disk, mem, open, tieOrder, ragVars, reqVars, split_in>>

NextSplit == SplitDocuments

SpecSplit == InitSplit /\ [][NextSplit]_vars

RetrievalFailureDegrades ==
    \A r \in Reqs :
        pc[r] = "respond" =>
            \A s \in Sections :
                /\ s \in fault[r] => section[r][s] = "warning"
                /\ section[r][s] # "unset"

\* C10: degrade one section, continue the rest: a request in which
\* create_rag_vectorstore or a retrieve_rag_context failed still returns
\* its response, with the affected sections replaced by warnings and the
\* other sections produced.
C10_DegradeOneSection ==
    /\ RetrievalFailureDegrades
    /\ \A r \in Reqs :
          (pc[r] = "done" /\ "create_rag_vectorstore" \in fault[r]) =>
              resp[r] = "success"

\* the program points of generate_docs between the clone and the rmtree
\* of the success path; files of the clone are read at "extract" and "pom"
BeforeCleanup == {"extract", "filter", "ingest", "ingesting", "endpoints",
                  "language", "summary", "pom", "cleanup"}

\* the clone is there whenever the handler may still read from it, and it
\* is removed on the three returns of the handler
CloneRemovedOnReturn ==
    \A r \in Reqs :
        /\ pc[r] \in BeforeCleanup => repo_path[r] = "cloned"
        /\ resp[r] \in {"no_code_files", "no_source_files", "success"}
               => repo_path[r] = "removed"

\* C12: in every request whose clone succeeded, the cloned directory is
\* still there at every point that may read from it and has been removed
\* when the request is over, whether the handler returned early, returned
\* its response or was left by an exception of a later step.
C12_CloneRemoved ==
    /\ CloneRemovedOnReturn
    /\ \A r \in Reqs :
           pc[r] = "done" /\ resp[r] # "raised_clone"
               => repo_path[r] = "removed"

\* the retry loop, whatever the calls raise: it makes at most MaxAttempts
\* calls, repeats only after RESOURCE_EXHAUSTED, is left by break at the
\* first call that does not raise, by the exception at the first other
\* exception, and by its else branch after MaxAttempts RESOURCE_EXHAUSTED
RetryLoopContract ==
    \A raised \in [1..MaxAttempts -> RaiseKinds] :
        LET loop == retry_loop(raised, 1)
        IN  /\ loop.attempts \in 1..MaxAttempts
            /\ \A i \in 1..(loop.attempts - 1) :
                   raised[i] = "RESOURCE_EXHAUSTED"
            /\ loop.end = "break" <=> raised[loop.attempts] = "none"
            /\ loop.end = "raise" <=> raised[loop.attempts] = "other"
            /\ loop.end = "exhausted" <=>
                   /\ loop.attempts = MaxAttempts
                   /\ \A i \in 1..MaxAttempts :
                          raised[i] = "RESOURCE_EXHAUSTED"

OwnEntries(r) == Entries(split_documents(filtered_files(repo[r])))

\* C14: a request has made no retrieval before its create_rag_vectorstore
\* has returned; whenever it has made one (for the endpoint explanations,
\* the language summary, the project summary or the pom explanation), all
\* its chunks were written and the collection the retrieval saw held them;
\* a request that returned early made no retrieval and wrote no chunk.
C14_IngestBeforeRetrieve ==
    \A r \in Reqs :
        /\ pc[r] \in {"idle", "extract", "filter", "ingest", "ingesting",
                       "endpoints"} => obs[r] = NoObs
        /\ obs[r] # NoObs =>
               /\ pending[r] = << >>
               /\ written[r] = Len(OwnEntries(r))
               /\ written[r] > 0
               /\ obs[r].seen >= written[r]
               /\ SubSeq(mem, obs[r].seen - written[r] + 1, obs[r].seen)
                      = OwnEntries(r)
        /\ resp[r] \in {"no_code_files", "no_source_files"} =>
               /\ obs[r] = NoObs
               /\ written[r] = 0
               /\ pending[r] = << >>

\* a request has made its last retrieval, for the pom explanation, on a
\* collection that holds its chunk after those of an earlier request
C14_Witness ==
    \E r \in Reqs :
        /\ pc[r] = "cleanup"
        /\ obs[r].query = QPom
        /\ written[r] = 1
        /\ obs[r].seen > written[r]

\* the endpoints request r hands to generate_ai_endpoint_explanations
EndpointsOf(r) == extract_endpoints_from_code(filtered_files(repo[r]))

\* one entry per endpoint, in the order of the endpoints, each with its
\* endpoint and the given text
OnePerEndpoint(list, endpoints, text) ==
    /\ Len(list) = Len(endpoints)
    /\ \A i \in 1..Len(endpoints) :
           list[i] = [endpoint |-> endpoints[i],
                      endpoint_explanation_text |-> text]

\* C15: generate_ai_endpoint_explanations always returns (the handler goes
\* on to the language summary with the section set).  With no endpoints the
\* result is a single note entry and neither a retrieval nor a failure has
\* happened; when the client, the retrieval or the model call raised, the
\* result has one entry per endpoint, in input order, with the endpoint and
\* a warning text; when the model text was not JSON, it has one entry per
\* endpoint with the raw text.
C15_EndpointExplanationShapes ==
    \A r \in Reqs :
        pc[r] \in {"language", "summary", "pom", "cleanup", "respond"} =>
            LET shape == section[r]["endpoint_explanations"]
            IN  /\ shape \in {"note", "text", "raw_text", "warning"}
                /\ EndpointsOf(r) = << >> <=> shape = "note"
                /\ shape = "note" =>
                       /\ explanations[r] = <<[note |-> "no_endpoints"]>>
                       /\ pc[r] = "language" => obs[r] = NoObs /\ fault[r] = {}
                /\ shape = "warning" =>
                       OnePerEndpoint(explanations[r], EndpointsOf(r), "warning")
                /\ shape = "raw_text" =>
                       OnePerEndpoint(explanations[r], EndpointsOf(r), "raw_text")

\* the retrieval of generate_ai_endpoint_explanations raised for a request
\* with two endpoints, and the handler went on with two warning entries
C15_Witness ==
    \E r \in Reqs :
        /\ pc[r] = "language"
        /\ Len(EndpointsOf(r)) = 2
        /\ "endpoint_explanations" \in fault[r]
        /\ section[r]["endpoint_explanations"] = "warning"
        /\ Len(explanations[r]) = 2

(* ------------------------- claims on SpecRag --------------------------- *)
\* The results of a search as (entry, text, score) triples, nearest first.
Results(idx, query, k) ==
    LET ids == similarity_search(idx, query, k) IN
    [p \in 1..Len(ids) |->
        [id |-> ids[p], doc |-> idx[ids[p]].doc,
         score |-> Distance(query, idx[ids[p]])]]

\* texts[1], "\n\n", texts[2], ... built from the left
RECURSIVE BlankLineSeparated(_, _)
BlankLineSeparated(texts, n) ==
    IF n = 0 THEN ""
    ELSE IF n = 1 THEN texts[1]
    ELSE BlankLineSeparated(texts, n - 1) \o "\n\n" \o texts[n]

RECURSIVE TotalLen(_, _)
TotalLen(texts, n) == IF n = 0 THEN 0 ELSE TotalLen(texts, n - 1) + Len(texts[n])

\* position of id in the sequence ids (0 when absent)
PosIn(ids, id) == IF \E p \in 1..Len(ids) : ids[p] = id
                  THEN CHOOSE p \in 1..Len(ids) : ids[p] = id ELSE 0

\* C1: the Index is append-only and ingestion is not idempotent: no step
\* shortens the Index or changes an entry already in it, a retrieval leaves
\* it as it was, and an ingest call adds one entry per chunk it was handed,
\* also for chunks the Index already holds (so a second ingest of the same
\* chunks leaves two copies of each).
C1_AppendOnlyNotIdempotent ==
    [][/\ Len(disk') >= Len(disk)
       /\ IsPrefix(disk, disk')
       /\ (last'.op = "retrieve" => disk' = disk /\ mem' = mem)
       /\ (last'.op = "ingest" =>
              \A t \in DocTexts :
                  Copies(disk', t) - Copies(disk, t)
                      = Copies(acked', t) - Copies(acked, t))]_vars

C1_Witness ==
    /\ last.op = "retrieve"
    /\ Len(prevIndex) > 0
    /\ \E t \in DocTexts : Copies(disk, t) = 2 /\ Copies(prevIndex, t) = 1

\* C2: durability of ingest: at every point after an ingest call returned,
\* the store on disk (what load returns after a crash at that point) holds
\* every entry of that call, and an Index Store loaded after a crash holds
\* them.
C2_DurableIngest ==
    /\ IsPrefix(acked, load_rag_vectorstore(disk))
    /\ (vectordb = "loaded" => IsPrefix(acked, mem))

C2_Witness ==
    /\ restarted
    /\ vectordb = "loaded"
    /\ Len(acked) >= 2
    /\ mem = acked

C5_ContextIsJoinedTexts ==
    (last.op = "retrieve" /\ last.k > 0) =>
        LET texts == page_contents(mem, last.ids)
            n == Len(texts) IN
        /\ last.error = "none"
        /\ texts = [p \in 1..n |-> Results(mem, last.query, last.k)[p].doc]
        /\ (n = 0 => last.context = "")
        /\ last.context = BlankLineSeparated(texts, n)
        /\ (n > 0 => Len(last.context) = TotalLen(texts, n) + 2 * (n - 1))

C5_Witness ==
    /\ last.op = "retrieve"
    /\ Len(last.ids) >= 2
    /\ last.context = "b\n\na"

\* C6: retrieve with k <= 0 fails with InvalidArgumentError, returns no
\* context and performs no search.
C6_RejectsNonPositiveK ==
    (last.op = "retrieve" /\ last.k <= 0) =>
        /\ last.error = "InvalidArgumentError"
        /\ ~last.searched
        /\ last.context = ""

\* C7: search on an Index of n entries with k > 0 returns min(k, n) distinct
\* entries, nearest first, none of them farther than an entry left out; on
\* the empty Index it returns the empty sequence and no error.
C7_ResultSize ==
    (last.op = "retrieve" /\ last.k > 0) =>
        LET ids == last.ids
            n == Len(mem)
            d(i) == Distance(last.query, mem[i]) IN
        /\ last.error = "none"
        /\ Len(ids) = Min(last.k, n)
        /\ Range(ids) \subseteq 1..n
        /\ Cardinality(Range(ids)) = Len(ids)
        /\ \A p \in 1..(Len(ids) - 1) : d(ids[p]) <= d(ids[p + 1])
        /\ \A i \in Range(ids), j \in (1..n) \ Range(ids) : d(i) <= d(j)

C7_Witness ==
    /\ last.op = "retrieve"
    /\ last.k > Len(mem)
    /\ Len(mem) >= 2
    /\ Len(last.ids) = Len(mem)

\* C8: two searches with the same query and k and no ingest between them
\* return the same ordered results, and entries at equal similarity come in
\* insertion order.
C8_IdempotentStableSearch ==
    (last.op = "retrieve" /\ last.k > 0) =>
        /\ (memo.query = last.query /\ memo.k = last.k) => memo.ids = last.ids
        /\ \A p \in 1..(Len(last.ids) - 1) :
              Distance(last.query, mem[last.ids[p]])
                  = Distance(last.query, mem[last.ids[p + 1]])
              => last.ids[p] < last.ids[p + 1]

ChunksOf(d) == SelectSeq(split_out, LAMBDA c : c.src = d)

ShortDoc(doc) == TextLen(doc, 1, Len(doc)) < ChunkSize

BlankDoc(doc) == \A i \in 1..Len(doc) : doc[i].ws

\* the text without its leading and trailing whitespace
Trimmed(doc) ==
    SelectSeq([i \in 1..Len(doc) |-> [at |-> i, tok |-> doc[i]]],
              LAMBDA e : /\ \E i \in 1..e.at : ~doc[i].ws
                         /\ \E i \in e.at..Len(doc) : ~doc[i].ws)

TrimmedText(doc) == [i \in 1..Len(Trimmed(doc)) |-> Trimmed(doc)[i].tok]

\* blank documents give no chunk, no documents give no chunks, and the
\* chunks come document after document, each document's chunks in the order
\* of their place in its text
ChunkerEdges ==
    /\ \A d \in 1..Len(split_in) :
           BlankDoc(split_in[d]) => ChunksOf(d) = << >>
    /\ split_in = << >> => split_out = << >>
    /\ \A i, j \in 1..Len(split_out) :
           i < j => \/ split_out[i].src < split_out[j].src
                    \/ /\ split_out[i].src = split_out[j].src
                       /\ split_out[i].from < split_out[j].from
                       /\ split_out[i].to <= split_out[j].to
    /\ \A i \in 1..Len(split_out) :
           /\ split_out[i].src \in 1..Len(split_in)
           /\ 1 <= split_out[i].from
           /\ split_out[i].from <= split_out[i].to
           /\ split_out[i].to <= Len(split_in[split_out[i].src])

====
